---- MODULE Spec2Model ----
(***************************************************************************)
(* Model of the asynchronous value bridge of oasis-jsbridge (QuickJS       *)
(* build): JavaTypes::Deferred (Deferred_quickjs.cpp) and JavaTypes::Object *)
(* (Object.cpp).                                                            *)
(*                                                                          *)
(*   toHost   = Deferred::toJava    (JS promise   -> Java deferred)         *)
(*   toScript = Deferred::fromJava  (Java deferred -> JS promise)           *)
(*   complete = Deferred::completeJsPromise                                 *)
(*   dispatcher = Object::fromJava / Object::newJavaType                    *)
(*                                                                          *)
(* Specifications: SpecToHost, SpecToScript, SpecProducers (concurrent      *)
(* fromJava calls), SpecObject (the dispatcher), SpecBridge (a promise      *)
(* taken through toJava and back through fromJava).                         *)
(***************************************************************************)
EXTENDS Integers, Sequences, FiniteSets, TLC

\* ------------------------------------------------------------------ bounds
\* Number of Deferred::toJava calls in a behaviour.
MaxToJava == 1
\* Number of callback invocations a script-defined 'then' makes in one call.
MaxThenCalls == 2

\* ------------------------------------------------------------ script values
\* A script value: its JS type tag and a payload that tells values apart.
JsVal(tag, n) == [tag |-> tag, n |-> n]

JS_NULL == JsVal("null", 0)
JS_UNDEFINED == JsVal("undefined", 0)
JS_EXCEPTION == JsVal("exception", 0)

\* Values a promise settles with / a thenable passes to a callback.
SettleVals == {JsVal("number", 42), JsVal("symbol", 1)}

\* A host value: its Java runtime type and a payload.
JValue(type, n) == [type |-> type, n |-> n]

\* JValue(): the empty (null) host value.
JNull == JValue("null", 0)

\* ------------------------------------------------- Object::toJava (QuickJS)
\* The component converter used for the deferred's component type: the
\* untyped-object converter.  Returns the host value and whether a
\* TypeException was thrown.
ObjectToJava(v) ==
  CASE v.tag \in {"undefined", "null"} -> [value |-> JNull, typeError |-> FALSE]
    [] v.tag = "bool"   -> [value |-> JValue("java.lang.Boolean", v.n), typeError |-> FALSE]
    [] v.tag = "number" -> [value |-> JValue("java.lang.Double", v.n), typeError |-> FALSE]
    [] v.tag = "string" -> [value |-> JValue("java.lang.String", v.n), typeError |-> FALSE]
    [] v.tag = "object" -> [value |-> JValue("JsonObjectWrapper", v.n), typeError |-> FALSE]
    [] OTHER            -> [value |-> JNull, typeError |-> TRUE]

\* JS_Throw(reason); getJavaExceptionForJsError(): the host exception that
\* wraps a script error value.
JavaExceptionForJsError(reason) == JValue("JsException", reason.n)

\* The error the engine raises when JS_Call is given a non-function.
NotAFunctionError == JsVal("object", 99)

\* The error a script-defined 'then' raises.
ThenError == JsVal("string", 5)

\* --------------------------------------------------------------- the state
VARIABLES
  \* toHost direction
  deferreds,     \* one record per Deferred::toJava call, in call order
  promises,      \* the script's native promises: state, value, reactions
  jobs,          \* the engine's queue of pending promise reaction jobs
  crashed,       \* the process was aborted by a failed assert()
  \* toScript direction
  promiseCount,  \* static int promiseCount: the last bridge id issued
  globals,       \* the script global object's entries named by bridge ids
  promiseCtor,   \* what the global name "Promise" holds
  jsPromises,    \* per bridge id: state of the promise fromJava constructed
  notified,      \* what the host notifier (setUpJsPromise) was handed: id, deferred
  fromJavaRet,   \* what the last Deferred::fromJava call returned
  completeLog,   \* one record per Deferred::completeJsPromise call
  \* concurrent producers
  producers,     \* per thread: where it is in fromJava, its register, its id
  issued,        \* the bridge ids issued, in the order they were registered
  \* dispatcher
  objectLog      \* one record per Object::fromJava call: the value and the result

hostVars == <<deferreds, promises, jobs, crashed>>
scriptVars ==
  <<promiseCount, globals, promiseCtor, jsPromises, notified, fromJavaRet, completeLog>>
concVars == <<producers, issued>>
vars == <<deferreds, promises, jobs, crashed, promiseCount, globals, promiseCtor,
          jsPromises, notified, fromJavaRet, completeLog, producers, issued, objectLog>>

\* The native promise the script hands to toJava (every call may be given it).
PIds == {1}

\* ------------------------------------------- values handed to Deferred::toJava
ScriptValue(tag, n, then, pid, prog, raises, argc, arg) ==
  [tag |-> tag, n |-> n, then |-> then, pid |-> pid, prog |-> prog,
   raises |-> raises, argc |-> argc, arg |-> arg]

Plain(tag, n, then) == ScriptValue(tag, n, then, 0, <<>>, FALSE, 0, JS_NULL)

\* Sequences over S of length at most n.
SeqUpTo(S, n) == UNION {[1..k -> S] : k \in 0..n}

\* Non-objects, and objects without a 'then' property.
NoThenValues ==
  {Plain("number", 42, "absent"), Plain("undefined", 0, "absent"),
   Plain("string", 7, "absent"), Plain("symbol", 1, "absent"),
   Plain("object", 3, "absent")}

\* Objects with a 'then' property that is not callable.
NonCallableThenValues == {Plain("object", 4, "noncallable")}

\* Native promises.
NativePromiseValues ==
  {ScriptValue("object", 10 + p, "native", p, <<>>, FALSE, 0, JS_NULL) : p \in PIds}

\* Objects whose 'then' is a script function: it invokes the callbacks it is
\* given as prog says ("F" fulfilment, "R" rejection), with argc arguments,
\* and then returns or raises.
ThenableValues ==
  {ScriptValue("object", 20, "script", 0, prog, r, a[1], a[2]) :
     prog \in SeqUpTo({"F", "R"}, MaxThenCalls), r \in BOOLEAN,
     a \in {<<1, JsVal("number", 42)>>, <<0, JS_NULL>>}}

ToJavaInputs ==
  NoThenValues \cup NonCallableThenValues \cup NativePromiseValues \cup ThenableValues

\* JS_IsObject(v)
JS_IsObject(v) == v.tag = "object"

\* utils->hasPropertyStr(v, "then")
HasThenProperty(v) == v.then # "absent"

\* JS_IsFunction(ctx, thenValue)
ThenIsFunction(v) == v.then \in {"native", "script"}

\* bool isPromise = JS_IsObject(v) && utils->hasPropertyStr(v, "then");
IsPromise(v) == JS_IsObject(v) /\ HasThenProperty(v)

\* ------------------------------------------------------ completion callbacks
\* A call of the host's resolveDeferred / rejectDeferred on a deferred:
\* raised says the call left a pending host exception.
HostCall(op, val, raised, via) ==
  [op |-> op, val |-> val, raised |-> raised, via |-> via]

\* onPromiseFulfilled with the argument test off by one (argc > 1): the
\* fulfilment value is dropped.
OnPromiseFulfilledDropsValue(argc, arg, fail) ==
  LET promiseValue == IF argc > 1 THEN arg ELSE JS_NULL
      value == ObjectToJava(promiseValue).value
  IN [call |-> HostCall("resolveDeferred", value, fail, "callback"),
      ret |-> IF fail THEN JS_EXCEPTION ELSE JS_UNDEFINED,
      rethrown |-> fail]

\* onPromiseFulfilled: converts the promise value and resolves the deferred
\* of its payload.
OnPromiseFulfilled(argc, arg, fail) ==
  LET promiseValue == IF argc >= 1 THEN arg ELSE JS_NULL
      value == ObjectToJava(promiseValue).value
  IN [call |-> HostCall("resolveDeferred", value, fail, "callback"),
      ret |-> IF fail THEN JS_EXCEPTION ELSE JS_UNDEFINED,
      rethrown |-> fail]

\* onPromiseRejected calling resolveDeferred instead of rejectDeferred.
OnPromiseRejectedResolves(argc, arg, fail) ==
  LET reason == IF argc > 0 THEN arg ELSE JS_NULL
      value == JavaExceptionForJsError(reason)
  IN [call |-> HostCall("resolveDeferred", value, fail, "callback"),
      ret |-> IF fail THEN JS_EXCEPTION ELSE JS_UNDEFINED,
      rethrown |-> fail]

\* onPromiseRejected: wraps the reason in a host exception and rejects the
\* deferred of its payload.
OnPromiseRejected(argc, arg, fail) ==
  LET reason == IF argc > 0 THEN arg ELSE JS_NULL
      value == JavaExceptionForJsError(reason)
  IN [call |-> HostCall("rejectDeferred", value, fail, "callback"),
      ret |-> IF fail THEN JS_EXCEPTION ELSE JS_UNDEFINED,
      rethrown |-> fail]

Callback(cb, argc, arg, fail) ==
  IF cb = "F" THEN OnPromiseFulfilled(argc, arg, fail)
  ELSE OnPromiseRejected(argc, arg, fail)

\* --------------------------------------------------------- Deferred::toJava
\* The record kept for one Deferred::toJava call:
\*   created     createCompletableDeferred returned a deferred
\*   completions the resolveDeferred / rejectDeferred calls made on it so far
\*   ret         "deferred" (JValue(javaDeferred)), "empty" (JValue()) or
\*               "abort" (the process died in the call)
\*   atReturn    the number of completion calls made when the call returned
\*   registered  the two callbacks with their payloads were created
\*   thenCalled  JS_Call(then) was made
\*   rethrows    the number of rethrowJniException() calls for this deferred
\*   stateAtCall the state of the native promise v when toJava was called
\*               ("none": v is no native promise)
DeferredRec(v, created, completions, ret, registered, thenCalled, rethrows) ==
  [v |-> v, created |-> created, completions |-> completions, ret |-> ret,
   atReturn |-> Len(completions), registered |-> registered,
   thenCalled |-> thenCalled, rethrows |-> rethrows,
   stateAtCall |-> IF v.then = "native" THEN promises[v.pid].state ELSE "none"]

\* The number of elements of a sequence that satisfy raised.
RECURSIVE CountRaised(_)
CountRaised(calls) ==
  IF calls = <<>> THEN 0
  ELSE (IF Head(calls).raised THEN 1 ELSE 0) + CountRaised(Tail(calls))

\* createCompletableDeferred left a pending exception: rethrow, return JValue().
ToJavaCreateFailed(v) == DeferredRec(v, FALSE, <<>>, "empty", FALSE, FALSE, 1)

\* The fast path turning a failed resolveDeferred into a rejection of the
\* deferred it then returns, instead of rethrowing.
ToJavaFastPathRejectsOnFailure(v, fail) ==
  LET value == ObjectToJava(v).value
      call == HostCall("resolveDeferred", value, fail, "fast")
      reject == HostCall("rejectDeferred", JValue("HostInteropError", 0), FALSE, "fast")
  IN DeferredRec(v, TRUE, IF fail THEN <<call, reject>> ELSE <<call>>, "deferred",
                 FALSE, FALSE, 0)

\* Not a promise: convert the value, resolve the deferred directly.
ToJavaFastPath(v, fail) ==
  LET value == ObjectToJava(v).value
      call == HostCall("resolveDeferred", value, fail, "fast")
  IN DeferredRec(v, TRUE, <<call>>, IF fail THEN "empty" ELSE "deferred",
                 FALSE, FALSE, IF fail THEN 1 ELSE 0)

\* The completion calls made by the callbacks while a script 'then' runs.
ThenCallbackCalls(v, failAt) ==
  [i \in 1..Len(v.prog) |-> Callback(v.prog[i], v.argc, v.arg, failAt = i).call]

\* The index of the host completion call that fails: the first one, or none.
FailAt(hostFails) == IF hostFails THEN 1 ELSE 0

\* if (JS_IsException(ret)): reject the deferred with the script error.
ToJavaThenRaised(v, err, before, fail) ==
  LET call == HostCall("rejectDeferred", JavaExceptionForJsError(err), fail, "thenRaised")
      calls == Append(before, call)
  IN DeferredRec(v, TRUE, calls, IF fail THEN "empty" ELSE "deferred",
                 TRUE, TRUE, CountRaised(calls))

\* JS_Call(then) returned normally.
ToJavaThenReturned(v, before) ==
  DeferredRec(v, TRUE, before, "deferred", TRUE, TRUE, CountRaised(before))

\* assert(JS_IsFunction(m_ctx, thenValue)) failed in a build with assertions.
ToJavaAborted(v) == DeferredRec(v, TRUE, <<>>, "abort", TRUE, FALSE, 0)

\* promise.then(onFulfilled, onRejected) of a native promise: a pending
\* promise keeps the reaction, a settled one queues its job at once.
NativeThen(p, d) ==
  IF promises[p].state = "pending"
  THEN /\ promises' = [promises EXCEPT ![p].reactions = Append(@, d)]
       /\ jobs' = jobs
  ELSE /\ promises' = promises
       /\ jobs' = Append(jobs, [cb |-> IF promises[p].state = "fulfilled" THEN "F" ELSE "R",
                                d |-> d, arg |-> promises[p].val])

\* The number of host completion calls a toJava call can make for v.
HostCallsOf(v, ndebug) ==
  IF ~IsPromise(v) THEN 1
  ELSE IF ~ThenIsFunction(v) THEN (IF ndebug THEN 1 ELSE 0)
  ELSE IF v.then = "native" THEN 0
  ELSE Len(v.prog) + (IF v.raises THEN 1 ELSE 0)

\* JValue Deferred::toJava(JSValueConst v, bool inScript)
\*   createFails  createCompletableDeferred leaves a pending host exception
\*   hostFails    the first host completion call of this invocation leaves
\*                a pending host exception
\*   ndebug       the build compiles assert() out
ToJava(v, createFails, hostFails, ndebug) ==
  /\ ~crashed
  /\ Len(deferreds) < MaxToJava
  /\ hostFails => (~createFails /\ HostCallsOf(v, ndebug) >= 1)
  /\ LET d == Len(deferreds) + 1
         failAt == FailAt(hostFails)
     IN
     IF createFails THEN
       /\ deferreds' = Append(deferreds, ToJavaCreateFailed(v))
       /\ UNCHANGED <<promises, jobs, crashed>>
     ELSE IF ~IsPromise(v) THEN
       /\ deferreds' = Append(deferreds, ToJavaFastPath(v, failAt = 1))
       /\ UNCHANGED <<promises, jobs, crashed>>
     ELSE IF ~ThenIsFunction(v) THEN
       IF ndebug
       THEN /\ deferreds' = Append(deferreds,
                                   ToJavaThenRaised(v, NotAFunctionError, <<>>, failAt = 1))
            /\ UNCHANGED <<promises, jobs, crashed>>
       ELSE /\ deferreds' = Append(deferreds, ToJavaAborted(v))
            /\ crashed' = TRUE
            /\ UNCHANGED <<promises, jobs>>
     ELSE IF v.then = "native" THEN
       /\ deferreds' = Append(deferreds, ToJavaThenReturned(v, <<>>))
       /\ NativeThen(v.pid, d)
       /\ UNCHANGED crashed
     ELSE
       /\ deferreds' = Append(deferreds,
            IF v.raises
            THEN ToJavaThenRaised(v, ThenError, ThenCallbackCalls(v, failAt),
                                  failAt = Len(v.prog) + 1)
            ELSE ToJavaThenReturned(v, ThenCallbackCalls(v, failAt)))
       /\ UNCHANGED <<promises, jobs, crashed>>
  /\ UNCHANGED <<scriptVars, concVars, objectLog>>

\* The script settles one of its pending promises: the engine queues a job
\* for every reaction registered on it.
SettlePromise(p, state, x) ==
  /\ ~crashed
  /\ promises[p].state = "pending"
  /\ promises' = [promises EXCEPT ![p] = [state |-> state, val |-> x, reactions |-> <<>>]]
  /\ jobs' = jobs \o [i \in 1..Len(promises[p].reactions) |->
                        [cb |-> IF state = "fulfilled" THEN "F" ELSE "R",
                         d |-> promises[p].reactions[i], arg |-> x]]
  /\ UNCHANGED <<deferreds, crashed>>
  /\ UNCHANGED <<scriptVars, concVars, objectLog>>

\* The engine runs the next pending job: the callback registered by toJava
\* is invoked with the settled value, and completes the deferred of its
\* payload.
RunJob(fail) ==
  /\ ~crashed
  /\ jobs # <<>>
  /\ LET job == Head(jobs)
         r == Callback(job.cb, 1, job.arg, fail)
     IN deferreds' = [deferreds EXCEPT
                        ![job.d].completions = Append(@, r.call),
                        ![job.d].rethrows = @ + (IF r.rethrown THEN 1 ELSE 0)]
  /\ jobs' = Tail(jobs)
  /\ UNCHANGED <<promises, crashed>>
  /\ UNCHANGED <<scriptVars, concVars, objectLog>>

HostInit ==
  /\ deferreds = <<>>
  /\ promises = [p \in PIds |-> [state |-> "pending", val |-> JS_UNDEFINED, reactions |-> <<>>]]
  /\ jobs = <<>>
  /\ crashed = FALSE

\* ================================================================ dispatcher
\* getJavaTypeIdByJavaName(strName): the JavaTypeId of a runtime class name,
\* a closed enumeration; every name it does not know is Unknown.
GetJavaTypeIdByJavaName(name) ==
  CASE name = "boolean"           -> "Boolean"
    [] name = "java.lang.Boolean" -> "BoxedBoolean"
    [] name = "int"               -> "Int"
    [] name = "java.lang.Integer" -> "BoxedInt"
    [] name = "long"              -> "Long"
    [] name = "java.lang.Long"    -> "BoxedLong"
    [] name = "float"             -> "Float"
    [] name = "java.lang.Float"   -> "BoxedFloat"
    [] name = "double"            -> "Double"
    [] name = "java.lang.Double"  -> "BoxedDouble"
    [] name = "java.lang.String"  -> "String"
    [] name = "JsonObjectWrapper" -> "JsonObjectWrapper"
    [] name = "kotlinx.coroutines.Deferred" -> "Deferred"
    [] OTHER                      -> "Unknown"

ClassNames ==
  {"boolean", "java.lang.Boolean", "int", "java.lang.Integer", "long",
   "java.lang.Long", "float", "java.lang.Float", "double", "java.lang.Double",
   "java.lang.String", "JsonObjectWrapper", "kotlinx.coroutines.Deferred",
   "JsException", "java.util.Date"}

\* The converter "nullptr": newJavaType found none.
NullConverter == "nullptr"

\* newJavaType with the case label of JavaTypeId::Int missing: only the boxed
\* id selects the Integer converter.
NewJavaTypeNoPrimitiveInt(name) ==
  LET id == GetJavaTypeIdByJavaName(name) IN
  CASE id \in {"Boolean", "BoxedBoolean"} -> "BoxedPrimitive<Boolean>"
    [] id = "BoxedInt"                    -> "BoxedPrimitive<Integer>"
    [] id \in {"Long", "BoxedLong"}       -> "BoxedPrimitive<Long>"
    [] id \in {"Float", "BoxedFloat"}     -> "BoxedPrimitive<Float>"
    [] id \in {"Double", "BoxedDouble"}   -> "BoxedPrimitive<Double>"
    [] id = "String"                      -> "String"
    [] id = "JsonObjectWrapper"           -> "JsonObjectWrapper"
    [] OTHER                              -> NullConverter

\* JavaType *Object::newJavaType(jobject): the converter for the runtime
\* class of a host object, or nullptr.
NewJavaType(name) ==
  LET id == GetJavaTypeIdByJavaName(name) IN
  CASE id \in {"Boolean", "BoxedBoolean"} -> "BoxedPrimitive<Boolean>"
    [] id \in {"Int", "BoxedInt"}         -> "BoxedPrimitive<Integer>"
    [] id \in {"Long", "BoxedLong"}       -> "BoxedPrimitive<Long>"
    [] id \in {"Float", "BoxedFloat"}     -> "BoxedPrimitive<Float>"
    [] id \in {"Double", "BoxedDouble"}   -> "BoxedPrimitive<Double>"
    [] id = "String"                      -> "String"
    [] id = "JsonObjectWrapper"           -> "JsonObjectWrapper"
    [] OTHER                              -> NullConverter

\* javaType->fromJava(value, inScript) of the converters newJavaType builds:
\* the script value of the matching JS type.
ConverterFromJava(conv, value) ==
  CASE conv = "BoxedPrimitive<Boolean>" -> JsVal("bool", value.n)
    [] conv = "String"                  -> JsVal("string", value.n)
    [] conv = "JsonObjectWrapper"       -> JsVal("object", value.n)
    [] OTHER                            -> JsVal("number", value.n)

\* Object::fromJava without the test of newJavaType's result: the conversion
\* is invoked on whatever newJavaType returned.
ObjectFromJavaNoNullCheck(value) ==
  IF value.type = "null"
  THEN [ret |-> JS_NULL, conv |-> "none", invokedOn |-> "none", typeError |-> FALSE]
  ELSE LET javaType == NewJavaType(value.type) IN
       [ret |-> ConverterFromJava(javaType, value), conv |-> javaType,
        invokedOn |-> javaType, typeError |-> FALSE]

\* JSValue Object::fromJava(const JValue &value, bool inScript):
\*   ret        the value returned
\*   conv       what newJavaType returned ("none": not called)
\*   invokedOn  the converter whose fromJava was invoked ("none": no call)
\*   typeError  throwTypeException was called
ObjectFromJava(value) ==
  IF value.type = "null"
  THEN [ret |-> JS_NULL, conv |-> "none", invokedOn |-> "none", typeError |-> FALSE]
  ELSE LET javaType == NewJavaType(value.type) IN
       IF javaType = NullConverter
       THEN [ret |-> JS_EXCEPTION, conv |-> javaType, invokedOn |-> "none",
             typeError |-> TRUE]
       ELSE [ret |-> ConverterFromJava(javaType, value), conv |-> javaType,
             invokedOn |-> javaType, typeError |-> FALSE]

\* ================================================================== toScript
\* Number of non-null Deferred::fromJava calls (bridge ids issued).
MaxFromJava == 1
\* Number of Deferred::completeJsPromise calls in a behaviour.
MaxComplete == 2

\* Number of bridge ids the concurrent producers issue in a behaviour.
MaxIssued == 4

\* Ids a completion can name: those fromJava can issue and one it never does.
IdSpace == 1..(MaxFromJava + 1)

\* The global names the model keeps track of.
GlobalIds == 1..(MaxFromJava + MaxIssued + 1)

\* A property slot: a function (a promise capability of a bridge's promise),
\* or a value that is not callable.
Slot(kind, cap, of) == [kind |-> kind, cap |-> cap, of |-> of]
UndefinedSlot == Slot("undefined", "none", 0)
NullSlot == Slot("null", "none", 0)

\* JS_IsFunction(ctx, slot)
JS_IsFunction(slot) == slot.kind = "function"

\* What a global name holds: nothing (undefined), a primitive, or an object
\* with its hidden component-type slot and its resolve / reject slots.
Entry(kind, componentType, resolve, reject) ==
  [kind |-> kind, componentType |-> componentType, resolve |-> resolve, reject |-> reject]
NoEntry == Entry("undefined", "undefined", UndefinedSlot, UndefinedSlot)

\* JS_NewObject + the component type stored under PROMISE_COMPONENT_TYPE_PROP_NAME.
NewPromiseObject == Entry("object", "cppptr", UndefinedSlot, UndefinedSlot)

\* promiseFunction(resolve, reject): the executor stores the two capabilities
\* it is given on the PromiseObject; a missing argument is stored as null.
PromiseFunction(promiseObject, argc, id) ==
  [promiseObject EXCEPT
     !.resolve = IF argc >= 1 THEN Slot("function", "resolve", id) ELSE NullSlot,
     !.reject = IF argc >= 2 THEN Slot("function", "reject", id) ELSE NullSlot]

\* new Promise(promiseFunction): the native constructor runs the executor
\* with the promise's two capabilities; a constructor a script put in its
\* place need not run it.
CallPromiseCtor(promiseObject, id) ==
  IF promiseCtor = "native" THEN PromiseFunction(promiseObject, 2, id)
  ELSE promiseObject

\* std::to_string(++promiseCount)
NextPromiseId == promiseCount + 1

\* fromJava handing the id to setUpJsPromise before it constructs the promise.
FromJavaStepsSetUpFirst ==
  <<"newPromiseObject", "putToGlobalStash", "setUpJsPromise", "newPromise">>

\* The statements of Deferred::fromJava that touch the registry or the host,
\* in program order: JS_NewObject with the component type slot, the
\* JS_SetPropertyStr on the global object, new Promise(promiseFunction), and
\* the call of setUpJsPromise.
FromJavaSteps ==
  <<"newPromiseObject", "putToGlobalStash", "newPromise", "setUpJsPromise">>

\* What one fromJava call has done so far:
\*   obj      the PromiseObject (shared by the stash and the executor)
\*   stashed  the PromiseObject is stored under the global name
\*   seen     what the global name held when setUpJsPromise was called
FromJavaStart == [obj |-> NoEntry, stashed |-> FALSE, seen |-> NoEntry]

FromJavaStep(st, step, id) ==
  CASE step = "newPromiseObject" -> [st EXCEPT !.obj = NewPromiseObject]
    [] step = "putToGlobalStash" -> [st EXCEPT !.stashed = TRUE]
    [] step = "newPromise"       -> [st EXCEPT !.obj = CallPromiseCtor(st.obj, id)]
    [] step = "setUpJsPromise"   -> [st EXCEPT !.seen = IF st.stashed THEN st.obj ELSE NoEntry]

RECURSIVE FromJavaRun(_, _, _)
FromJavaRun(st, steps, id) ==
  IF steps = <<>> THEN st
  ELSE FromJavaRun(FromJavaStep(st, Head(steps), id), Tail(steps), id)

\* The registry entry of id when fromJava calls setUpJsPromise.
EntryAtSetUp(id) == FromJavaRun(FromJavaStart, FromJavaSteps, id).seen

\* The registry entry of id when fromJava returns.
EntryAtReturn(id) ==
  LET st == FromJavaRun(FromJavaStart, FromJavaSteps, id)
  IN IF st.stashed THEN st.obj ELSE NoEntry

\* What setUpJsPromise is handed: the bridge id and the host deferred.
HandOver(id, jDeferred) == [id |-> id, deferred |-> jDeferred]

\* fromJava testing the deferred for null only after it has taken an id and
\* stored the PromiseObject.
FromJavaCallNullCheckAfterId(isNull, setUpFails, jDeferred) ==
  /\ UNCHANGED <<hostVars, concVars, objectLog>>
  /\ LET id == NextPromiseId IN
     /\ promiseCount' = id
     /\ globals' = [globals EXCEPT ![id] = NewPromiseObject]
     /\ IF isNull THEN
          /\ fromJavaRet' = "null"
          /\ UNCHANGED <<jsPromises, notified>>
        ELSE
          /\ jsPromises' = [jsPromises EXCEPT ![id] =
                              [made |-> TRUE, state |-> "pending", val |-> JS_UNDEFINED]]
          /\ notified' = IF setUpFails THEN notified
                         ELSE notified \cup {HandOver(id, jDeferred)}
          /\ fromJavaRet' = IF setUpFails THEN "exception" ELSE "promise"
  /\ UNCHANGED <<promiseCtor, completeLog>>

\* fromJava giving the id back when setUpJsPromise fails.
FromJavaCallRollsBackId(isNull, setUpFails, jDeferred) ==
  /\ UNCHANGED <<hostVars, concVars, objectLog>>
  /\ IF isNull THEN
      /\ fromJavaRet' = "null"
      /\ UNCHANGED <<promiseCount, globals, promiseCtor, jsPromises, notified, completeLog>>
     ELSE
      /\ LET id == NextPromiseId IN
         /\ promiseCount' = IF setUpFails THEN promiseCount ELSE id
         /\ globals' = [globals EXCEPT ![id] = EntryAtReturn(id)]
         /\ jsPromises' = [jsPromises EXCEPT ![id] =
                             [made |-> TRUE, state |-> "pending", val |-> JS_UNDEFINED]]
         /\ notified' = IF setUpFails THEN notified
                        ELSE notified \cup {HandOver(id, jDeferred)}
         /\ fromJavaRet' = IF setUpFails THEN "exception" ELSE "promise"
      /\ UNCHANGED <<promiseCtor, completeLog>>

\* JSValue Deferred::fromJava(const JValue &value, bool inScript)
\*   isNull       the host deferred handed in is null
\*   setUpFails   setUpJsPromise leaves a pending host exception
\*   jDeferred    the host deferred: the number of the toJava call that made
\*                it, 0 for a deferred of the host's own
FromJavaCall(isNull, setUpFails, jDeferred) ==
  /\ UNCHANGED <<hostVars, concVars, objectLog>>
  /\ IF isNull THEN
      /\ fromJavaRet' = "null"
      /\ UNCHANGED <<promiseCount, globals, promiseCtor, jsPromises, notified, completeLog>>
     ELSE
      /\ LET id == NextPromiseId IN
         /\ promiseCount' = id
         /\ globals' = [globals EXCEPT ![id] = EntryAtReturn(id)]
         /\ jsPromises' = [jsPromises EXCEPT ![id] =
                             [made |-> TRUE, state |-> "pending", val |-> JS_UNDEFINED]]
         /\ notified' = IF setUpFails THEN notified
                        ELSE notified \cup {HandOver(id, jDeferred)}
         /\ fromJavaRet' = IF setUpFails THEN "exception" ELSE "promise"
      /\ UNCHANGED <<promiseCtor, completeLog>>

\* fromJava called with a deferred of the host's own.
FromJava(isNull, setUpFails) ==
  /\ isNull \/ promiseCount < MaxFromJava
  /\ FromJavaCall(isNull, setUpFails, 0)

\* The resolve / reject capability of a promise: the first call settles it,
\* later calls change nothing.
CallCapability(slot, param) ==
  [jsPromises EXCEPT ![slot.of] =
     IF @.state = "pending"
     THEN [made |-> TRUE,
           state |-> IF slot.cap = "resolve" THEN "fulfilled" ELSE "rejected",
           val |-> param]
     ELSE @]

\* The outcome of one completeJsPromise call.
\*   found    what the global name held when it was looked up
\*   outcome  "notFound", "noComponentType", "notCallable" or "called"
\*   invoked  the slot that was called (UndefinedSlot: none)
\*   conv     the conversion of value by the component type (done: performed)
CompleteRec(id, isFulfilled, value, found, outcome, invoked, conv) ==
  [id |-> id, isFulfilled |-> isFulfilled, value |-> value, found |-> found,
   outcome |-> outcome, invoked |-> invoked, conv |-> conv]

NoConversion == [ret |-> JS_UNDEFINED, conv |-> "none", invokedOn |-> "none",
                 typeError |-> FALSE, done |-> FALSE]

\* JS_IsObject(promiseObj) of what JS_GetPropertyStr(globalObj, strId) gave.
EntryIsObject(e) == e.kind = "object"

\* JS_IsNull(componentTypeValue) || !JS_IsObject(componentTypeValue)
ComponentTypeMissing(e) == e.componentType # "cppptr"

\* The slot selection with the two names swapped.
SelectSlotSwapped(promiseObj, isFulfilled) ==
  IF isFulfilled THEN promiseObj.reject ELSE promiseObj.resolve

\* const char *resolveOrRejectStr = isFulfilled ? "resolve" : "reject";
\* JS_GetPropertyStr(ctx, promiseObj, resolveOrRejectStr)
SelectSlot(promiseObj, isFulfilled) ==
  IF isFulfilled THEN promiseObj.resolve ELSE promiseObj.reject

\* componentType->fromJava(JValue(value), false): the conversion performed.
Conversion(value) ==
  LET promiseParam == ObjectFromJava(value)
  IN [ret |-> promiseParam.ret, conv |-> promiseParam.conv,
      invokedOn |-> promiseParam.invokedOn, typeError |-> promiseParam.typeError,
      done |-> TRUE]

\* completeJsPromise converting the value and calling the selected slot
\* without testing that the slot is a function.
CompleteOutcomeNoFunctionTest(promiseObj, isFulfilled, value) ==
  LET resolveOrReject == IF isFulfilled THEN promiseObj.resolve ELSE promiseObj.reject IN
  IF ~EntryIsObject(promiseObj) THEN
    [outcome |-> "notFound", invoked |-> UndefinedSlot, conv |-> NoConversion]
  ELSE IF ComponentTypeMissing(promiseObj) THEN
    [outcome |-> "noComponentType", invoked |-> UndefinedSlot, conv |-> NoConversion]
  ELSE
    [outcome |-> "called", invoked |-> resolveOrReject, conv |-> Conversion(value)]

\* The body of completeJsPromise for what the global name held: the step at
\* which it returns, the slot it called and the conversion it performed.
CompleteOutcome(promiseObj, isFulfilled, value) ==
  LET resolveOrReject == SelectSlot(promiseObj, isFulfilled) IN
  IF ~EntryIsObject(promiseObj) THEN
    [outcome |-> "notFound", invoked |-> UndefinedSlot, conv |-> NoConversion]
  ELSE IF ComponentTypeMissing(promiseObj) THEN
    [outcome |-> "noComponentType", invoked |-> UndefinedSlot, conv |-> NoConversion]
  ELSE IF JS_IsFunction(resolveOrReject) THEN
    [outcome |-> "called", invoked |-> resolveOrReject, conv |-> Conversion(value)]
  ELSE
    [outcome |-> "notCallable", invoked |-> UndefinedSlot, conv |-> NoConversion]

\* completeJsPromise deleting the global name once it has called the slot.
CompleteJsPromiseConsumesEntry(id, isFulfilled, value) ==
  /\ Len(completeLog) < MaxComplete
  /\ LET promiseObj == globals[id]
         r == CompleteOutcome(promiseObj, isFulfilled, value)
     IN /\ completeLog' = Append(completeLog,
             CompleteRec(id, isFulfilled, value, promiseObj, r.outcome, r.invoked, r.conv))
        /\ jsPromises' = IF r.invoked.kind = "function"
                         THEN CallCapability(r.invoked, r.conv.ret)
                         ELSE jsPromises
        /\ globals' = IF r.outcome = "called" THEN [globals EXCEPT ![id] = NoEntry]
                      ELSE globals
  /\ UNCHANGED <<promiseCount, promiseCtor, notified, fromJavaRet>>
  /\ UNCHANGED <<hostVars, concVars, objectLog>>

\* void Deferred::completeJsPromise(jsBridgeContext, strId, isFulfilled, value)
CompleteJsPromise(id, isFulfilled, value) ==
  /\ Len(completeLog) < MaxComplete
  /\ LET promiseObj == globals[id]
         r == CompleteOutcome(promiseObj, isFulfilled, value)
     IN /\ completeLog' = Append(completeLog,
             CompleteRec(id, isFulfilled, value, promiseObj, r.outcome, r.invoked, r.conv))
        /\ jsPromises' = IF r.invoked.kind = "function"
                         THEN CallCapability(r.invoked, r.conv.ret)
                         ELSE jsPromises
  /\ UNCHANGED <<promiseCount, globals, promiseCtor, notified, fromJavaRet>>
  /\ UNCHANGED <<hostVars, concVars, objectLog>>

\* A script assigns a global name the bridge uses: the registry is the script
\* global object, so any script can overwrite an entry with its own value.
ScriptSetGlobal(id, e) ==
  /\ globals[id] # e
  /\ globals' = [globals EXCEPT ![id] = e]
  /\ UNCHANGED <<promiseCount, promiseCtor, jsPromises, notified, fromJavaRet, completeLog>>
  /\ UNCHANGED <<hostVars, concVars, objectLog>>

\* A script replaces the global Promise constructor by a function of its own.
ScriptSetPromiseCtor ==
  /\ promiseCtor = "native"
  /\ promiseCtor' = "script"
  /\ UNCHANGED <<promiseCount, globals, jsPromises, notified, fromJavaRet, completeLog>>
  /\ UNCHANGED <<hostVars, concVars, objectLog>>

\* What a script stores under a bridge's name: an empty object.
ScriptEntries ==
  {Entry("object", "undefined", UndefinedSlot, UndefinedSlot)}

\* Host values handed to the completion entry point.
CompleteValues == {JValue("java.lang.Integer", 5)}

ScriptInit ==
  /\ promiseCount = 0
  /\ globals = [id \in GlobalIds |-> NoEntry]
  /\ promiseCtor = "native"
  /\ jsPromises = [id \in GlobalIds |-> [made |-> FALSE, state |-> "pending", val |-> JS_UNDEFINED]]
  /\ notified = {}
  /\ fromJavaRet = "none"
  /\ completeLog = <<>>

\* ====================================================== concurrent producers
\* Number of threads that call Deferred::fromJava at the same time.
NumProducers == 2

Threads == 1..NumProducers

\* ++promiseCount is a load and a store of the unsynchronised static int:
\* the load.
LoadPromiseCount(t) ==
  /\ producers[t].pc = "idle"
  /\ Len(issued) + Cardinality({u \in Threads : producers[u].pc # "idle"}) < MaxIssued
  /\ producers' = [producers EXCEPT ![t] = [pc |-> "loaded", reg |-> promiseCount, id |-> 0]]
  /\ UNCHANGED <<promiseCount, globals, jsPromises, issued>>
  /\ UNCHANGED <<hostVars, promiseCtor, notified, fromJavaRet, completeLog, objectLog>>

\* ++promiseCount: the store of the incremented register; the id is named.
StorePromiseCount(t) ==
  /\ producers[t].pc = "loaded"
  /\ promiseCount' = producers[t].reg + 1
  /\ producers' = [producers EXCEPT ![t] = [pc |-> "named", reg |-> @.reg, id |-> @.reg + 1]]
  /\ UNCHANGED <<globals, jsPromises, issued>>
  /\ UNCHANGED <<hostVars, promiseCtor, notified, fromJavaRet, completeLog, objectLog>>

\* The rest of fromJava: the PromiseObject is put in the global stash under
\* the id and the promise is constructed.
RegisterPromiseObject(t) ==
  /\ producers[t].pc = "named"
  /\ LET id == producers[t].id IN
     /\ globals' = [globals EXCEPT ![id] = CallPromiseCtor(NewPromiseObject, id)]
     /\ jsPromises' = [jsPromises EXCEPT ![id] =
                         [made |-> TRUE, state |-> "pending", val |-> JS_UNDEFINED]]
     /\ issued' = Append(issued, id)
  /\ producers' = [producers EXCEPT ![t] = [pc |-> "idle", reg |-> 0, id |-> 0]]
  /\ UNCHANGED promiseCount
  /\ UNCHANGED <<hostVars, promiseCtor, notified, fromJavaRet, completeLog, objectLog>>

ConcInit ==
  /\ producers = [t \in Threads |-> [pc |-> "idle", reg |-> 0, id |-> 0]]
  /\ issued = <<>>

\* ========================================================= dispatcher calls
\* Number of Object::fromJava calls in a behaviour.
MaxObjectCalls == 3

ObjectValues == {JNull} \cup {JValue(name, 1) : name \in ClassNames}

ObjectFromJavaCall(value) ==
  /\ Len(objectLog) < MaxObjectCalls
  /\ objectLog' = Append(objectLog, [value |-> value, result |-> ObjectFromJava(value)])
  /\ UNCHANGED <<hostVars, scriptVars, concVars>>

ObjectInit == objectLog = <<>>

\* ============================================================ specifications
Init == HostInit /\ ScriptInit /\ ConcInit /\ ObjectInit

\* The toHost direction: toJava calls, the script settling its promises, the
\* engine running the reaction jobs.
NextToHost ==
  \/ \E v \in ToJavaInputs, createFails \in BOOLEAN, hostFails \in BOOLEAN,
        ndebug \in BOOLEAN :
       ToJava(v, createFails, hostFails, ndebug)
  \/ \E p \in PIds, state \in {"fulfilled", "rejected"}, x \in SettleVals :
       SettlePromise(p, state, x)
  \/ \E fail \in BOOLEAN : RunJob(fail)

SpecToHost == Init /\ [][NextToHost]_vars

\* The toScript direction: fromJava and completeJsPromise calls on the script
\* thread, and scripts writing the global names the bridge uses.
NextToScript ==
  \/ \E isNull \in BOOLEAN, setUpFails \in BOOLEAN : FromJava(isNull, setUpFails)
  \/ \E id \in IdSpace, isFulfilled \in BOOLEAN, value \in CompleteValues :
       CompleteJsPromise(id, isFulfilled, value)
  \/ \E id \in IdSpace, e \in ScriptEntries : ScriptSetGlobal(id, e)
  \/ ScriptSetPromiseCtor

SpecToScript == Init /\ [][NextToScript]_vars

\* Producers on several threads inside fromJava at once.
NextProducers ==
  \/ \E t \in Threads : LoadPromiseCount(t)
  \/ \E t \in Threads : StorePromiseCount(t)
  \/ \E t \in Threads : RegisterPromiseObject(t)

SpecProducers == Init /\ [][NextProducers]_vars

\* The dispatcher alone.
NextObject == \E value \in ObjectValues : ObjectFromJavaCall(value)

SpecObject == Init /\ [][NextObject]_vars

\* ==================================================================== toHost
\* The completion call a deferred received, without the host's outcome.
Done(op, val) == [op |-> op, val |-> val]
Completion(call) == Done(call.op, call.val)
CompletionsOf(d) == [i \in 1..Len(deferreds[d].completions) |->
                       Completion(deferreds[d].completions[i])]
DeferredIds == 1..Len(deferreds)

\* The value has a callable 'then'.
PromiseShaped(v) == JS_IsObject(v) /\ ThenIsFunction(v)

\* C1: every deferred toJava returns receives exactly one completion call,
\* whatever the script value does: one when the value is not promise-shaped,
\* one when 'then' raises (also after invoking a callback), one when the
\* promise has settled and its job has run, and never more than one.
C1_ExactlyOneCompletion ==
  \A d \in DeferredIds :
    LET r == deferreds[d] IN
    r.created /\ r.ret # "abort" =>
      /\ Len(r.completions) <= 1
      /\ (~PromiseShaped(r.v) \/ (r.v.then = "script" /\ r.v.raises)) =>
           Len(r.completions) = 1

\* C2: for every value without a callable 'then' (a non-object, an object
\* without 'then', an object whose 'then' is not callable) toJava completes
\* the deferred before returning, exactly once, with the converted value,
\* registers no callbacks and never calls 'then'.
C2_NotPromiseShapedFastPath ==
  \A d \in DeferredIds :
    LET r == deferreds[d] IN
    r.created /\ ~PromiseShaped(r.v) =>
      /\ CompletionsOf(d) = <<Done("resolveDeferred", ObjectToJava(r.v).value)>>
      /\ r.atReturn = 1
      /\ ~r.registered
      /\ ~r.thenCalled

\* The jobs queued for deferred d.
JobsFor(d) == {i \in 1..Len(jobs) : jobs[i].d = d}

C9_CompletedAtReturn ==
  \A d \in DeferredIds :
    LET r == deferreds[d] IN
    r.created /\ r.stateAtCall = "fulfilled" => r.atReturn >= 1

\* C9 as amended: a promise already fulfilled when it is handed to toJava
\* gives a deferred that is returned pending, the fulfilment callback being
\* queued as a promise job; when the engine has run that job the deferred has
\* the single completion resolveDeferred(convert(x)).
C9_CompletedByJob ==
  \A d \in DeferredIds :
    LET r == deferreds[d]
        p == promises[r.v.pid] IN
    r.created /\ r.stateAtCall = "fulfilled" =>
      /\ r.ret = "deferred"
      /\ r.atReturn = 0
      /\ IF JobsFor(d) # {}
         THEN /\ r.completions = <<>>
              /\ \A i \in JobsFor(d) : jobs[i].cb = "F" /\ jobs[i].arg = p.val
         ELSE CompletionsOf(d) = <<Done("resolveDeferred", ObjectToJava(p.val).value)>>

C9_Witness ==
  \E d \in DeferredIds :
    /\ deferreds[d].stateAtCall = "fulfilled"
    /\ promises[deferreds[d].v.pid].val = JsVal("number", 42)
    /\ deferreds[d].atReturn = 0
    /\ CompletionsOf(d) = <<Done("resolveDeferred", JValue("java.lang.Double", 42))>>

\* A completion call of d left a pending host exception.
HostFailed(d) == \E i \in 1..Len(deferreds[d].completions) : deferreds[d].completions[i].raised

\* C10 as claimed: a host-call failure after the deferred was created ends
\* with the deferred rejected and nothing propagated to the caller.
C10_HostFailureRejects ==
  \A d \in DeferredIds :
    LET r == deferreds[d] IN
    r.created /\ HostFailed(d) =>
      /\ r.rethrows = 0
      /\ r.completions[Len(r.completions)].op = "rejectDeferred"
      /\ ~r.completions[Len(r.completions)].raised

\* C10 as amended: every failed host call is rethrown (rethrowJniException)
\* and never followed by a rejection made for it: when the failed call is
\* toJava's own (fast path, then-raised path) it is the deferred's last
\* completion call and toJava returns the empty value; a failed
\* createCompletableDeferred is rethrown with the empty value and no
\* completion call; toJava returns the deferred in every other case.
C10_HostFailureRethrown ==
  \A d \in DeferredIds :
    LET r == deferreds[d]
        n == Len(r.completions)
        own == {i \in 1..n : r.completions[i].via # "callback"} IN
    /\ ~r.created => r.ret = "empty" /\ r.completions = <<>> /\ r.rethrows = 1
    /\ r.created =>
         /\ r.rethrows = Cardinality({i \in 1..n : r.completions[i].raised})
         /\ \A i \in own : i = n /\ i = r.atReturn
         /\ r.ret = "empty" <=> (\E i \in own : r.completions[i].raised)
         /\ r.ret = "deferred" <=> (r.ret # "abort" /\ \A i \in own : ~r.completions[i].raised)

C10_Witness ==
  \E d \in DeferredIds :
    /\ deferreds[d].created
    /\ deferreds[d].ret = "empty"
    /\ deferreds[d].completions # <<>>
    /\ deferreds[d].completions[1].via = "fast"
    /\ deferreds[d].completions[1].raised


\* ================================================================== toScript
LogIds == 1..Len(completeLog)

\* The PromiseObject fromJava registers under id, once the native Promise
\* constructor has run the executor.
RegisteredObject(id) == PromiseFunction(NewPromiseObject, 2, id)

\* C4: once a complete call for an id has invoked the stored capability, a
\* later complete call with the same id invokes neither capability and
\* performs no conversion.
C4_SecondCompleteIsNoOp ==
  \A i, j \in LogIds :
    (i < j /\ completeLog[i].id = completeLog[j].id /\ completeLog[i].outcome = "called") =>
      /\ completeLog[j].invoked = UndefinedSlot
      /\ ~completeLog[j].conv.done

\* The first complete call for its id that found the object fromJava
\* registered.
FirstComplete(i) ==
  /\ completeLog[i].found = RegisteredObject(completeLog[i].id)
  /\ \A h \in 1..(i - 1) :
       completeLog[h].id = completeLog[i].id => completeLog[h].outcome # "called"

Defensive(c) ==
  \/ c.found.kind # "object"
  \/ c.found.componentType # "cppptr"
  \/ (IF c.isFulfilled THEN c.found.resolve ELSE c.found.reject).kind # "function"

\* C7: in each defensive case complete invokes no capability and performs no
\* conversion; and a complete call in a defensive case leaves the registry and
\* the promises as they were.
C7_DefensiveStates ==
  \A i \in LogIds :
    Defensive(completeLog[i]) =>
      /\ completeLog[i].outcome # "called"
      /\ completeLog[i].invoked = UndefinedSlot
      /\ ~completeLog[i].conv.done

C6_IdsPairwiseDistinct ==
  \A i, j \in 1..Len(issued) : i # j => issued[i] # issued[j]

\* ================================================================ dispatcher
\* Runtime classes the dispatcher has no converter for.
UnsupportedClasses == {"JsException", "java.util.Date", "kotlinx.coroutines.Deferred"}

\* C8: for a non-null host value of an unknown or unsupported runtime class,
\* Object::fromJava throws a TypeException and returns the exception value,
\* and invokes no conversion (none on the null converter).
C8_UnknownTypeIsTypeError ==
  \A i \in 1..Len(objectLog) :
    LET r == objectLog[i].result IN
    /\ objectLog[i].value.type \in UnsupportedClasses =>
         r.typeError /\ r.ret = JS_EXCEPTION /\ r.invokedOn = "none"
    /\ r.invokedOn # NullConverter

C8_Witness ==
  \E i \in 1..Len(objectLog) :
    /\ objectLog[i].value.type = "java.util.Date"
    /\ objectLog[i].result.typeError
    /\ objectLog[i].result.conv = NullConverter

\* ================================================================ round trip
\* Number of Deferred::fromJava calls made on deferreds toJava returned.
MaxToScript == 2

\* toScript(toHost(p)): fromJava is handed the deferred toJava call d returned.
ToScript(d, setUpFails) ==
  /\ promiseCount < MaxToScript
  /\ d \in 1..Len(deferreds)
  /\ deferreds[d].ret = "deferred"
  /\ FromJavaCall(FALSE, setUpFails, d)

\* The settlement of the host deferred of toJava call d: a deferred takes the
\* first completion call that succeeds and ignores the later ones.
SettledCalls(d) ==
  {i \in 1..Len(deferreds[d].completions) : ~deferreds[d].completions[i].raised}

Settlement(d) ==
  deferreds[d].completions[CHOOSE i \in SettledCalls(d) : \A j \in SettledCalls(d) : i <= j]

\* The ids the notifier has delivered a settlement for.
Delivered == {completeLog[i].id : i \in 1..Len(completeLog)}

\* The host notifier set up by setUpJsPromise(id, deferred): once the deferred
\* has settled it calls the completion entry point, once, on the script
\* thread, with the outcome and the value or the exception of the deferred.
NotifierCompletes(h) ==
  /\ h \in notified
  /\ h.deferred \in 1..Len(deferreds)
  /\ SettledCalls(h.deferred) # {}
  /\ h.id \notin Delivered
  /\ LET c == Settlement(h.deferred)
     IN CompleteJsPromise(h.id, c.op = "resolveDeferred", c.val)

\* Both directions: a script promise is handed to toJava, the deferred toJava
\* returned is handed to fromJava, the script settles its promise, the engine
\* runs the reaction jobs, the notifier reports the deferred's settlement.
NextBridge ==
  \/ \E v \in NativePromiseValues, createFails \in BOOLEAN :
       ToJava(v, createFails, FALSE, FALSE)
  \/ \E p \in PIds, state \in {"fulfilled", "rejected"}, x \in SettleVals :
       SettlePromise(p, state, x)
  \/ \E fail \in BOOLEAN : RunJob(fail)
  \/ \E d \in 1..MaxToJava, setUpFails \in BOOLEAN : ToScript(d, setUpFails)
  \/ \E id \in 1..MaxToScript, d \in 1..MaxToJava : NotifierCompletes(HandOver(id, d))

SpecBridge == Init /\ [][NextBridge]_vars

\* C11: round trip.  For a script promise p handed to toJava whose deferred
\* is handed to fromJava, the promise q fromJava returned is fulfilled only
\* when p is fulfilled, and then with p's value; rejected only when p is
\* rejected, and then with p's reason; pending while p is pending; and once
\* the notifier has delivered the settlement, q has p's outcome.
C11_RoundTrip ==
  \A h \in notified :
    h.deferred \in 1..Len(deferreds) =>
      LET p == promises[deferreds[h.deferred].v.pid]
          q == jsPromises[h.id] IN
      /\ q.state = "fulfilled" => (p.state = "fulfilled" /\ q.val = p.val)
      /\ q.state = "rejected" => (p.state = "rejected" /\ q.val = p.val)
      /\ p.state = "pending" => q.state = "pending"
      /\ h.id \in Delivered => q.state = p.state

\* ================================================================== registry
\* C12: a bridge is consumed on completion: after a complete call that found
\* the entry and invoked resolve or reject, the registry no longer holds that
\* entry under the id.
C12_CompletedEntryRemoved ==
  \A i \in LogIds :
    completeLog[i].outcome = "called" =>
      globals[completeLog[i].id] # completeLog[i].found

\* The ids under which the registry holds an object.
RegisteredIds == {id \in GlobalIds : EntryIsObject(globals[id])}

\* C13: a complete call, on every path, leaves the global table as it was:
\* the same ids, the same object under each; and no step of fromJava,
\* complete or a script ever takes an id out of the table.
C13_CompleteKeepsRegistry ==
  [][/\ Len(completeLog') = Len(completeLog) + 1 => globals' = globals
     /\ \A id \in RegisteredIds : EntryIsObject(globals'[id])]_vars

C13_Witness ==
  \E i, j \in LogIds :
    /\ i < j
    /\ completeLog[i].id = completeLog[j].id
    /\ completeLog[i].outcome = "called"
    /\ completeLog[j].found = completeLog[i].found
    /\ globals[completeLog[j].id] = completeLog[j].found

\* ================================================================= hand-over
\* The ids the host notifier was handed.
NotifiedIds == {h.id : h \in notified}

\* The entry holds its component converter and both capabilities.
Completable(e) ==
  /\ EntryIsObject(e)
  /\ ~ComponentTypeMissing(e)
  /\ JS_IsFunction(e.resolve)
  /\ JS_IsFunction(e.reject)

\* C14 as claimed: for every id handed to the notifier the registry holds,
\* unless a script has overwritten the name since, the object with its
\* converter and callable resolve / reject slots, and every complete call
\* that found the object fromJava stored has called a capability.
C14_NotifierFindsCallableSlot ==
  /\ \A id \in NotifiedIds : globals[id] \notin ScriptEntries => Completable(globals[id])
  /\ \A i \in LogIds :
       (completeLog[i].id \in NotifiedIds /\ ~ComponentTypeMissing(completeLog[i].found))
         => completeLog[i].outcome = "called"

\* C14 as amended: when fromJava hands an id to the notifier, the registry
\* already holds under the id the object with its component converter, in the
\* state fromJava leaves it in; when the global Promise is the engine's
\* constructor the executor has run by then, so a complete call made at that
\* moment for either outcome calls a capability; when a script has replaced
\* the global Promise the slots may be empty.  Every complete call that
\* found an object with both capabilities has called one.
C14_HandOverAfterRegistration ==
  /\ [](\A i \in LogIds :
          (completeLog[i].id \in NotifiedIds /\ Completable(completeLog[i].found))
            => completeLog[i].outcome = "called")
  /\ [][\A id \in GlobalIds :
          (id \in NotifiedIds' /\ id \notin NotifiedIds) =>
            LET e == EntryAtSetUp(id) IN
            /\ EntryIsObject(e)
            /\ ~ComponentTypeMissing(e)
            /\ globals'[id] = e
            /\ promiseCtor = "native" =>
                 /\ Completable(e)
                 /\ \A f \in BOOLEAN, value \in CompleteValues :
                      CompleteOutcome(e, f, value).outcome = "called"]_vars

C14_Witness ==
  /\ promiseCtor = "native"
  /\ Len(completeLog) = 1
  /\ completeLog[1].id \in NotifiedIds
  /\ completeLog[1].isFulfilled
  /\ completeLog[1].outcome = "called"
  /\ jsPromises[completeLog[1].id].state = "fulfilled"

\* ============================================================ classification
\* The kind of the closed enumeration a runtime class belongs to.
KindOf(name) ==
  CASE name \in {"boolean", "java.lang.Boolean"} -> "boolean"
    [] name \in {"int", "java.lang.Integer"}     -> "integer"
    [] name \in {"long", "java.lang.Long"}       -> "long"
    [] name \in {"float", "java.lang.Float"}     -> "float"
    [] name \in {"double", "java.lang.Double"}   -> "double"
    [] name = "java.lang.String"                 -> "string"
    [] name = "JsonObjectWrapper"                -> "structured-object"
    [] name = "kotlinx.coroutines.Deferred"      -> "deferred"
    [] OTHER                                     -> "unknown"

\* The converter that matches a kind.
MatchingConverter(kind) ==
  CASE kind = "boolean"           -> "BoxedPrimitive<Boolean>"
    [] kind = "integer"           -> "BoxedPrimitive<Integer>"
    [] kind = "long"              -> "BoxedPrimitive<Long>"
    [] kind = "float"             -> "BoxedPrimitive<Float>"
    [] kind = "double"            -> "BoxedPrimitive<Double>"
    [] kind = "string"            -> "String"
    [] kind = "structured-object" -> "JsonObjectWrapper"
    [] kind = "deferred"          -> "Deferred"
    [] OTHER                      -> NullConverter

\* The Object::fromJava calls made on a non-null value.
NonNullCalls == {i \in 1..Len(objectLog) : objectLog[i].value.type # "null"}

\* Object::fromJava selected the converter of the kind, invoked it and threw
\* no TypeException.
Converted(i, kind) ==
  /\ objectLog[i].result.conv = MatchingConverter(kind)
  /\ objectLog[i].result.invokedOn = MatchingConverter(kind)
  /\ ~objectLog[i].result.typeError

\* Object::fromJava threw a TypeException and invoked no converter.
Refused(i) ==
  /\ objectLog[i].result.typeError
  /\ objectLog[i].result.ret = JS_EXCEPTION
  /\ objectLog[i].result.invokedOn = "none"

\* C15 as claimed: every kind other than unknown, the deferred kind included,
\* gets its matching converter; only the unknown kind gets a TypeError.
C15_EveryKindButUnknownConverts ==
  \A i \in NonNullCalls :
    LET kind == KindOf(objectLog[i].value.type) IN
    IF kind = "unknown" THEN Refused(i) ELSE Converted(i, kind)

\* C15 as amended: boolean, integer, long, float, double (a primitive and its
\* boxed form alike), string and structured-object get their matching
\* converter; the deferred kind, like the unknown kind, gets a TypeError.
C15_BasicKindsConvert ==
  \A i \in NonNullCalls :
    LET kind == KindOf(objectLog[i].value.type) IN
    IF kind \in {"unknown", "deferred"} THEN Refused(i) ELSE Converted(i, kind)

C15_Witness ==
  \E i, j, k \in NonNullCalls :
    /\ objectLog[i].value.type = "int"
    /\ objectLog[j].value.type = "java.lang.Integer"
    /\ objectLog[i].result.conv = objectLog[j].result.conv
    /\ objectLog[k].value.type = "kotlinx.coroutines.Deferred"
    /\ objectLog[k].result.typeError

\* ============================================================ value handles
\* What a statement does with a script value handle:
\*   "get"   obtains an owned handle (JS_New..., JS_Get..., JS_DupValue, a
\*           call's result)
\*   "use"   reads it or passes it as a borrowed argument
\*   "free"  releases it (JS_FreeValue)
\*   "give"  transfers its ownership (JS_SetPropertyStr's value, the return
\*           value)
Get(h) == <<"get", h>>
Use(h) == <<"use", h>>
Free(h) == <<"free", h>>
Give(h) == <<"give", h>>

\* The handle operations of a non-null Deferred::fromJava call in program
\* order, for the value it returns ("promise" or "exception").
FromJavaHandles(ret) ==
  << Get("promiseObject"),                                           \* 190
     Get("componentTypeValue"),                                      \* 191
     Use("promiseObject"), Give("componentTypeValue"),               \* 192
     Get("globalObj"),                                               \* 199
     Use("globalObj"), Get("promiseObjectDup"), Give("promiseObjectDup"),  \* 200
     Free("globalObj"),                                              \* 201
     Use("promiseObject"), Get("promiseFunctionValue"),              \* 204
     Free("promiseObject"),                                          \* 205
     Use("globalObj"), Get("promiseCtor"),                           \* 209
     Use("promiseCtor"), Use("promiseFunctionValue"), Get("promiseInstance"),  \* 210
     Free("promiseCtor") >>                                          \* 212
  \o (IF ret = "exception" THEN <<>>                                 \* 219
      ELSE <<Give("promiseInstance")>>)                              \* 222

\* The handle operations of a Deferred::completeJsPromise call in program
\* order, for the step at which it returns.
CompleteHandles(outcome) ==
  << Get("globalObj"),                                               \* 232
     Use("globalObj"), Get("promiseObj"),                            \* 233
     Free("globalObj") >>                                            \* 234
  \o (IF outcome = "notFound" THEN <<>>                              \* 237
      ELSE << Use("promiseObj"), Get("componentTypeValue") >>        \* 241
        \o (IF outcome = "noComponentType"
            THEN << Free("promiseObj") >>                            \* 244
            ELSE << Use("componentTypeValue"),                       \* 247
                    Free("componentTypeValue"),                      \* 248
                    Use("promiseObj"), Get("resolveOrReject") >>     \* 252
              \o (IF outcome = "called"
                  THEN << Get("promiseParam"),                       \* 255
                          Use("resolveOrReject"), Use("promiseObj"),
                          Use("promiseParam"), Get("ret"),           \* 256
                          Free("ret"),                               \* 261
                          Free("promiseParam") >>                    \* 262
                  ELSE <<>>)
              \o << Free("resolveOrReject"),                         \* 267
                    Free("promiseObj") >>))                          \* 268

\* The positions of a trace at which handle h is obtained / let go / touched.
Gets(t, h) == {i \in 1..Len(t) : t[i] = Get(h)}
LetGo(t, h) == {i \in 1..Len(t) : t[i] \in {Free(h), Give(h)}}
Touches(t, h) == {i \in 1..Len(t) : t[i][2] = h /\ t[i][1] # "get"}

\* Every handle the trace obtains is released or handed over exactly once,
\* and is not touched after that.
Disciplined(t) ==
  \A h \in {t[i][2] : i \in 1..Len(t)} :
    /\ Cardinality(LetGo(t, h)) = Cardinality(Gets(t, h))
    /\ \A i \in LetGo(t, h) : \A j \in Touches(t, h) : j <= i

\* C16: in every fromJava and completeJsPromise call made, on every path,
\* each handle obtained is released exactly once or has its ownership
\* transferred exactly once, and none is used after its release.
C16_HandlesBalanced ==
  /\ fromJavaRet \in {"promise", "exception"} => Disciplined(FromJavaHandles(fromJavaRet))
  /\ \A i \in LogIds : Disciplined(CompleteHandles(completeLog[i].outcome))

\* ======================================================= completion payloads
\* toJava reached JS_FreeValue(onPromiseFulfilledValue) and
\* JS_FreeValue(onPromiseRejectedValue): it created the two callbacks and
\* returned the deferred at the end of the function.
CallbacksReleased(r) == r.registered /\ r.ret = "deferred"

\* The engine holds callback cb of toJava call d: as a reaction of a pending
\* native promise, or in a queued reaction job.
EngineHolds(d, cb) ==
  \/ /\ deferreds[d].v.then = "native"
     /\ promises[deferreds[d].v.pid].state = "pending"
     /\ \E i \in 1..Len(promises[deferreds[d].v.pid].reactions) :
          promises[deferreds[d].v.pid].reactions[i] = d
  \/ \E i \in 1..Len(jobs) : jobs[i].d = d /\ jobs[i].cb = cb

\* Who holds a reference to the callback function value whose closure data
\* is the payload (created with deleteOnFinalize).
Holders(d, cb) ==
  (IF deferreds[d].registered /\ ~CallbacksReleased(deferreds[d]) THEN {"toJava"} ELSE {})
  \cup (IF EngineHolds(d, cb) THEN {"engine"} ELSE {})

\* The number of times the payload of callback cb was deleted: the finalizer
\* of the closure data runs once, when the last reference is gone.
PayloadFrees(d, cb) ==
  IF deferreds[d].registered /\ Holders(d, cb) = {} THEN 1 ELSE 0

\* C17: each payload toJava created is freed exactly once: when toJava has
\* returned and the promise or thenable can no longer run the callback, the
\* payload has been deleted.
C17_PayloadFreedOnce ==
  \A d \in DeferredIds : \A cb \in {"F", "R"} :
    (deferreds[d].registered /\ deferreds[d].ret # "abort" /\ ~EngineHolds(d, cb))
      => PayloadFrees(d, cb) = 1

\* ============================================================= null deferred
\* C18: a fromJava call that returns the script null value (the host deferred
\* was null) consumes no id and hands nothing to the notifier, and leaves the
\* registry and the promises as they were.
C18_NullChangesNothing ==
  [][fromJavaRet' = "null" =>
       /\ promiseCount' = promiseCount
       /\ notified' = notified
       /\ fromJavaRet # "null" =>
            /\ globals' = globals
            /\ jsPromises' = jsPromises
            /\ promiseCtor' = promiseCtor
            /\ completeLog' = completeLog]_vars

C18_Witness ==
  /\ fromJavaRet = "null"
  /\ promiseCount = 1
  /\ NotifiedIds = {1}
  /\ globals[1] = RegisteredObject(1)
  /\ \A id \in GlobalIds \ {1} : globals[id] = NoEntry /\ ~jsPromises[id].made

\* ========================================================== failed hand-over
\* C19: a fromJava call takes the next id and stores the PromiseObject under
\* it whether or not setUpJsPromise succeeds; it returns the exception value
\* exactly when the hand-over failed; the id of a failed call stays consumed
\* and its entry stays stored: every later call takes a larger id and leaves
\* the entries of the earlier ids as they are.
C19_FailedHandOverKeepsId ==
  /\ [](\A id \in 1..promiseCount : globals[id] = RegisteredObject(id))
  /\ [][promiseCount' >= promiseCount]_vars
  /\ [][globals' # globals =>
          LET id == promiseCount + 1 IN
          /\ promiseCount' = id
          /\ globals[id] = NoEntry
          /\ globals'[id] = RegisteredObject(id)
          /\ \A other \in GlobalIds \ {id} : globals'[other] = globals[other]
          /\ fromJavaRet' \in {"promise", "exception"}
          /\ fromJavaRet' = "exception" <=> id \notin NotifiedIds']_vars

C19_Witness ==
  /\ promiseCount = 2
  /\ fromJavaRet = "promise"
  /\ NotifiedIds = {2}
  /\ globals[1] = RegisteredObject(1)
  /\ globals[2] = RegisteredObject(2)

====
